---- MODULE Spec2Model ----
(***************************************************************************)
(* A state-machine model of examples/gastown/polecat_wrapper.py: one run   *)
(* of main(), from argument validation through handle_task (agent call,    *)
(* issue creation, commit_and_merge, gm reply) to the process exit status. *)
(* Every subprocess.run is one step; its outcome is chosen by the          *)
(* environment.                                                            *)
(***************************************************************************)
EXTENDS Integers, Sequences, FiniteSets, TLC

\* Bounds of the model
MaxIssues == 2      \* longest discovered_issues list the agent reports
MaxFiles == 1       \* longest files_modified list the agent reports

VARIABLES
    args,        \* argparse namespace: task, issue, stdin, message_id, dry_run
    pc,          \* position in main / handle_task / commit_and_merge
    task,        \* main's local `task` after validation (task or '')
    result,      \* the PolecatResult returned by run_vc, or NoResult
    calls,       \* every subprocess.run issued so far, in order, with its outcome
    idx,         \* loop position of create_discovered_issues
    created_ids, \* create_discovered_issues' list, as the indices of the entries
    git,         \* the repository: checked-out branch, index, history, remote
    git0,        \* the repository as it was when the process started
    entryBranch, \* the branch checked out when commit_and_merge was entered
    current,     \* commit_and_merge's local `current`
    cm,          \* commit_and_merge: not_called, active, returned, raised
    merged,      \* handle_task's local `merged`
    raised,      \* the exception in flight, or "none"
    report,      \* what the process printed last: none, usage, result, error, traceback
    exitCode,    \* the process exit status, or NoExit while running
    errmsg,      \* which RuntimeError run_vc raised, or "" when it raised none
    mode_in,     \* run_vc's task, lite_mode and force_lite, when its mode is selected alone
    use_lite     \* run_vc's local `use_lite`: unset, lite or full

vars == << args, pc, task, result, calls, idx, created_ids, git, git0,
           entryBranch, current, cm, merged, raised, report, exitCode,
           errmsg, mode_in, use_lite >>

NoResult == [none |-> TRUE]
NoExit == -1
None == "None"
NoMode == [none |-> TRUE]

----------------------------------------------------------------------------
\* Inputs

\* The positional task text: absent, or some text
TaskTexts == {None, "Fix typo in README"}
IssueRefs == {None, "vc-123"}
MessageIds == {None, "msg-1"}

ArgSpace == [task : TaskTexts, issue : IssueRefs, stdin : BOOLEAN,
             message_id : MessageIds, dry_run : BOOLEAN]

\* The text main reads from standard input under --stdin
StdinText == "task from stdin"

\* The branch the polecat works on when the process starts
StartBranches == {"polecat", "main"}
Branches == {"polecat", "main"}

\* The status field of the agent's JSON object: absent, or any string
RawStatuses == {None, "completed", "partial", "blocked", "bogus"}

FilesOf(n) == [i \in 1..n |-> "file"]
IssuesOf(n) == [i \in 1..n |-> [title |-> "Discovered issue"]]

\* The JSON objects the agent may print
Payloads == [status : RawStatuses, success : BOOLEAN,
             nfiles : 0..MaxFiles, nissues : 0..MaxIssues]

\* What the agent process may do: not start, or exit with a status and a stdout
\*   json_object      a JSON object
\*   json_other       valid JSON that is not an object
\*   brace_garbage    text that starts with '{' and is not JSON
\*   garbage          any other text
StdoutKinds == {"json_object", "json_other", "brace_garbage", "garbage"}

TrackerOutcomes == {"notfound", "fail", "no_id", "created"}
GmOutcomes == {"notfound", "fail", "ok"}
AddOutcomes == {"notfound", "fail", "ok"}
\* git commit: created a commit; failed with "nothing to commit" on stderr;
\* failed with "nothing to commit" on stdout only; failed otherwise
CommitOutcomes == {"ok", "nothing_stderr", "nothing_stdout", "fail"}
OkFail == {"ok", "fail"}

Call(tool, op, n, out) == [tool |-> tool, op |-> op, n |-> n, out |-> out]

----------------------------------------------------------------------------
\* Helpers over the call log

CallsOf(tool) == {i \in 1..Len(calls) : calls[i].tool = tool}
CallsOp(tool, op) == {i \in 1..Len(calls) : calls[i].tool = tool /\ calls[i].op = op}
Issued(tool, op, out) ==
    \E i \in 1..Len(calls) : calls[i].tool = tool /\ calls[i].op = op /\ calls[i].out = out

----------------------------------------------------------------------------
\* Pure pieces of the program

\* PolecatResult.from_json: every field defaults when absent
from_json(p) ==
    [status |-> IF p.status = None THEN "unknown" ELSE p.status,
     success |-> p.success,
     files_modified |-> FilesOf(p.nfiles),
     discovered_issues |-> IssuesOf(p.nissues)]

\* main: which targeting form wins (stdin, then issue, then task), or usage error
Targeting(a) ==
    IF a.stdin THEN "stdin"
    ELSE IF a.issue # None THEN "issue"
    ELSE IF a.task # None THEN "task"
    ELSE "error"

\* main: the local `task` handed to handle_task as `task or ''`
TaskOf(a) ==
    IF a.stdin THEN StdinText
    ELSE IF a.issue # None THEN ""
    ELSE a.task

\* Variant: the stdin flag is looked at before the issue reference
VcTarget_StdinFirst(issue_id, from_stdin) ==
    IF from_stdin THEN "stdin"
    ELSE IF issue_id # None THEN "issue"
    ELSE "task"

\* run_vc: the one targeting argument of the agent command
VcTarget(issue_id, from_stdin) ==
    IF issue_id # None THEN "issue"
    ELSE IF from_stdin THEN "stdin"
    ELSE "task"

\* run_vc: non-zero exit with stdout not starting with '{'
ExecutionFailed(rc, out) == rc # 0 /\ out \notin {"json_object", "brace_garbage"}

\* run_vc: json.loads succeeds
ParsesAsJson(out) == out \in {"json_object", "json_other"}

\* handle_task step 2
ShouldPublish(r, dry_run) == r.discovered_issues # <<>> /\ ~dry_run

\* Variant: the commit step forgets to look at the status
ShouldCommit_IgnoresStatus(r, dry_run) == r.success /\ ~dry_run

\* Variant: the commit step only leaves out the runs that report a failure status
ShouldCommit_NotFailed(r, dry_run) ==
    r.success /\ r.status \notin {"failed", "blocked", "partial"} /\ ~dry_run

\* handle_task step 3
ShouldCommit(r, dry_run) == r.success /\ r.status = "completed" /\ ~dry_run

\* Variant: the reply is sent in dry-run too
ShouldNotify_IgnoresDryRun(message_id, dry_run) == message_id # None

\* handle_task step 4
ShouldNotify(message_id, dry_run) == message_id # None /\ ~dry_run

\* handle_task step 4: the binary status of the reply
ReplyStatus(r) == IF r.success THEN "completed" ELSE "failed"

\* Variant: commit_and_merge without its early return
NoFilesModified_Never(r) == FALSE

\* commit_and_merge: nothing to do
NoFilesModified(r) == r.files_modified = <<>>

\* commit_and_merge: the commit failure that is treated as success
NothingToCommit(out) == out = "nothing_stderr"

\* main: the exit status after handle_task returned
ExitStatus(r) == IF r.success THEN 0 ELSE 1

\* main: the exceptions its handler catches
CaughtByMain(e) == e = "RuntimeError"

----------------------------------------------------------------------------
Init ==
    /\ args \in ArgSpace
    /\ pc = "main"
    /\ task = ""
    /\ result = NoResult
    /\ calls = <<>>
    /\ idx = 0
    /\ created_ids = <<>>
    /\ git \in [branch : StartBranches, staged : {FALSE}, commits : {0},
                merging : {FALSE}, mainMerged : {FALSE}, pushed : {FALSE}]
    /\ git0 = git
    /\ entryBranch = ""
    /\ current = ""
    /\ cm = "not_called"
    /\ merged = FALSE
    /\ raised = "none"
    /\ report = "none"
    /\ exitCode = NoExit
    /\ errmsg = ""
    /\ mode_in = NoMode
    /\ use_lite = "unset"

\* main: validate the arguments
ParseArgs ==
    /\ pc = "main"
    /\ IF Targeting(args) = "error"
       THEN /\ pc' = "done"
            /\ report' = "usage"
            /\ exitCode' = 2
            /\ task' = task
       ELSE /\ pc' = "run_vc"
            /\ task' = TaskOf(args)
            /\ UNCHANGED << report, exitCode >>
    /\ UNCHANGED << mode_in, use_lite, errmsg, args, result, calls, idx, created_ids, git, git0,
                    entryBranch, current, cm, merged, raised >>

\* handle_task step 1: run_vc
RunVc ==
    /\ pc = "run_vc"
    /\ \E found \in BOOLEAN, rc \in {0, 1}, out \in StdoutKinds, p \in Payloads :
        LET target == VcTarget(args.issue, args.stdin) IN
        IF ~found
        THEN /\ calls' = Append(calls, Call("vc", target, 0, "notfound"))
             /\ raised' = "RuntimeError"
             /\ errmsg' = "vc command not found"
             /\ pc' = "except"
             /\ result' = result
        ELSE /\ calls' = Append(calls, Call("vc", target, rc, out))
             /\ IF ExecutionFailed(rc, out)
                THEN /\ raised' = "RuntimeError"
                     /\ errmsg' = "VC execution failed"
                     /\ pc' = "except"
                     /\ result' = result
                ELSE IF ~ParsesAsJson(out)
                THEN /\ raised' = "RuntimeError"
                     /\ errmsg' = "Failed to parse VC output as JSON"
                     /\ pc' = "except"
                     /\ result' = result
                ELSE IF out = "json_other"
                THEN /\ raised' = "AttributeError"
                     /\ errmsg' = errmsg
                     /\ pc' = "except"
                     /\ result' = result
                ELSE /\ raised' = raised
                     /\ errmsg' = errmsg
                     /\ pc' = "step2"
                     /\ result' = from_json(p)
    /\ UNCHANGED << mode_in, use_lite, args, task, idx, created_ids, git, git0,
                    entryBranch, current, cm, merged, report, exitCode >>

\* Variant: the gm reply is sent before the issues are created
Step2_ReplyFirst ==
    /\ pc = "step2"
    /\ calls' = IF ShouldNotify(args.message_id, args.dry_run)
                THEN Append(calls, Call("gm", ReplyStatus(result), 0, "ok"))
                ELSE calls
    /\ IF ShouldPublish(result, args.dry_run)
       THEN pc' = "bd_create" /\ idx' = 1
       ELSE pc' = "step3" /\ idx' = idx
    /\ UNCHANGED << mode_in, use_lite, errmsg, args, task, result, created_ids, git,
                    git0, entryBranch, current, cm, merged, raised, report, exitCode >>

\* handle_task step 2: create discovered issues, unless dry-run
Step2 ==
    /\ pc = "step2"
    /\ IF ShouldPublish(result, args.dry_run)
       THEN pc' = "bd_create" /\ idx' = 1
       ELSE pc' = "step3" /\ idx' = idx
    /\ UNCHANGED << mode_in, use_lite, errmsg, args, task, result, calls, created_ids, git, git0,
                    entryBranch, current, cm, merged, raised, report, exitCode >>

\* Variant: the loop of create_discovered_issues stops at the first failure
BdCreate_AbortOnFailure ==
    /\ pc = "bd_create"
    /\ idx <= Len(result.discovered_issues)
    /\ \E out \in TrackerOutcomes :
        /\ calls' = Append(calls, Call("bd", "create", idx, out))
        /\ created_ids' = IF out = "created" THEN Append(created_ids, idx)
                          ELSE created_ids
        /\ pc' = IF idx + 1 > Len(result.discovered_issues) \/ out \in {"notfound", "fail"}
                 THEN "step3" ELSE "bd_create"
    /\ idx' = idx + 1
    /\ UNCHANGED << mode_in, use_lite, errmsg, args, task, result, git, git0, entryBranch, current, cm,
                    merged, raised, report, exitCode >>

\* create_discovered_issues: one pass of the loop
BdCreate ==
    /\ pc = "bd_create"
    /\ idx <= Len(result.discovered_issues)
    /\ \E out \in TrackerOutcomes :
        /\ calls' = Append(calls, Call("bd", "create", idx, out))
        /\ created_ids' = IF out = "created" THEN Append(created_ids, idx)
                          ELSE created_ids
    /\ idx' = idx + 1
    /\ pc' = IF idx + 1 > Len(result.discovered_issues) THEN "step3" ELSE "bd_create"
    /\ UNCHANGED << mode_in, use_lite, errmsg, args, task, result, git, git0, entryBranch, current, cm,
                    merged, raised, report, exitCode >>

\* handle_task step 3: merged = False, then commit_and_merge when the run succeeded
Step3 ==
    /\ pc = "step3"
    /\ merged' = FALSE
    /\ IF ShouldCommit(result, args.dry_run)
       THEN pc' = "cm_enter" /\ cm' = "active" /\ entryBranch' = git.branch
       ELSE pc' = "step4" /\ cm' = cm /\ entryBranch' = entryBranch
    /\ UNCHANGED << mode_in, use_lite, errmsg, args, task, result, calls, idx, created_ids, git, git0,
                    current, raised, report, exitCode >>

\* commit_and_merge: return True at once when no file was modified
CmEnter ==
    /\ pc = "cm_enter"
    /\ IF NoFilesModified(result)
       THEN pc' = "step4" /\ cm' = "returned" /\ merged' = TRUE
       ELSE pc' = "git_add" /\ cm' = cm /\ merged' = merged
    /\ UNCHANGED << mode_in, use_lite, errmsg, args, task, result, calls, idx, created_ids, git, git0,
                    entryBranch, current, raised, report, exitCode >>

\* Variant: git add -A without check=True
GitAdd_Unchecked ==
    /\ pc = "git_add"
    /\ \E out \in AddOutcomes :
        /\ calls' = Append(calls, Call("git", "add", 0, out))
        /\ git' = IF out = "ok" THEN [git EXCEPT !.staged = TRUE] ELSE git
    /\ pc' = "git_commit"
    /\ UNCHANGED << mode_in, use_lite, errmsg, args, task, result, idx, created_ids, git0, entryBranch,
                    current, cm, merged, raised, report, exitCode >>

\* commit_and_merge: git add -A, check=True
GitAdd ==
    /\ pc = "git_add"
    /\ \E out \in AddOutcomes :
        /\ calls' = Append(calls, Call("git", "add", 0, out))
        /\ IF out = "ok"
           THEN /\ git' = [git EXCEPT !.staged = TRUE]
                /\ pc' = "git_commit"
                /\ UNCHANGED << raised, cm >>
           ELSE /\ git' = git
                /\ raised' = IF out = "notfound" THEN "FileNotFoundError"
                             ELSE "CalledProcessError"
                /\ cm' = "raised"
                /\ pc' = "except"
    /\ UNCHANGED << mode_in, use_lite, errmsg, args, task, result, idx, created_ids, git0, entryBranch,
                    current, merged, report, exitCode >>

\* commit_and_merge: git commit -m, check=True, "nothing to commit" is success
GitCommit ==
    /\ pc = "git_commit"
    /\ \E out \in CommitOutcomes :
        /\ calls' = Append(calls, Call("git", "commit", 0, out))
        /\ IF out = "ok"
           THEN /\ git' = [git EXCEPT !.staged = FALSE, !.commits = @ + 1]
                /\ pc' = "rev_parse"
                /\ UNCHANGED << raised, cm, merged >>
           ELSE IF NothingToCommit(out)
           THEN /\ pc' = "step4"
                /\ cm' = "returned"
                /\ merged' = TRUE
                /\ UNCHANGED << git, raised >>
           ELSE /\ raised' = "CalledProcessError"
                /\ cm' = "raised"
                /\ pc' = "except"
                /\ UNCHANGED << git, merged >>
    /\ UNCHANGED << mode_in, use_lite, errmsg, args, task, result, idx, created_ids, git0, entryBranch,
                    current, report, exitCode >>

\* commit_and_merge: current = git rev-parse --abbrev-ref HEAD, unchecked
GitRevParse ==
    /\ pc = "rev_parse"
    /\ \E out \in OkFail :
        /\ calls' = Append(calls, Call("git", "rev-parse", 0, out))
        /\ current' = IF out = "ok" THEN git.branch ELSE ""
    /\ pc' = "checkout_main"
    /\ UNCHANGED << mode_in, use_lite, errmsg, args, task, result, idx, created_ids, git, git0,
                    entryBranch, cm, merged, raised, report, exitCode >>

\* commit_and_merge: git checkout main, check=True
GitCheckoutMain ==
    /\ pc = "checkout_main"
    /\ \E out \in OkFail :
        /\ calls' = Append(calls, Call("git", "checkout_main", 0, out))
        /\ IF out = "ok"
           THEN /\ git' = [git EXCEPT !.branch = "main"]
                /\ pc' = "merge"
                /\ UNCHANGED << raised, cm >>
           ELSE /\ raised' = "CalledProcessError"
                /\ cm' = "raised"
                /\ pc' = "except"
                /\ git' = git
    /\ UNCHANGED << mode_in, use_lite, errmsg, args, task, result, idx, created_ids, git0, entryBranch,
                    current, merged, report, exitCode >>

\* Variant: after a conflict the function goes on to the push
GitMerge_FallThrough ==
    /\ pc = "merge"
    /\ \E out \in OkFail :
        /\ out = "ok" => current \in Branches
        /\ calls' = Append(calls, Call("git", "merge", 0, out))
        /\ git' = IF out = "ok" THEN [git EXCEPT !.mainMerged = TRUE]
                  ELSE [git EXCEPT !.merging = TRUE]
    /\ pc' = "push"
    /\ UNCHANGED << mode_in, use_lite, errmsg, args, task, result, idx, created_ids,
                    git0, entryBranch, current, cm, merged, raised, report, exitCode >>

\* commit_and_merge: git merge current, check=True, failure is a conflict
GitMerge ==
    /\ pc = "merge"
    /\ \E out \in OkFail :
        /\ out = "ok" => current \in Branches
        /\ calls' = Append(calls, Call("git", "merge", 0, out))
        /\ IF out = "ok"
           THEN git' = [git EXCEPT !.mainMerged = TRUE] /\ pc' = "push"
           ELSE git' = [git EXCEPT !.merging = TRUE] /\ pc' = "conflict_checkout"
    /\ UNCHANGED << mode_in, use_lite, errmsg, args, task, result, idx, created_ids, git0, entryBranch,
                    current, cm, merged, raised, report, exitCode >>

\* commit_and_merge, conflict: git checkout current, unchecked; return False
GitCheckoutConflict ==
    /\ pc = "conflict_checkout"
    /\ \E out \in OkFail :
        /\ out = "ok" => current \in Branches
        /\ calls' = Append(calls, Call("git", "checkout_current", 0, out))
        /\ git' = IF out = "ok" THEN [git EXCEPT !.branch = current, !.merging = FALSE]
                  ELSE git
    /\ merged' = FALSE
    /\ cm' = "returned"
    /\ pc' = "step4"
    /\ UNCHANGED << mode_in, use_lite, errmsg, args, task, result, idx, created_ids, git0, entryBranch,
                    current, raised, report, exitCode >>

\* Variant: a failed push is tried a second time
GitPush_RetryOnce ==
    /\ pc = "push"
    /\ \E out \in OkFail :
        /\ calls' = Append(calls, Call("git", "push", 0, out))
        /\ git' = IF out = "ok" THEN [git EXCEPT !.pushed = TRUE] ELSE git
        /\ pc' = IF out = "fail" /\ ~Issued("git", "push", "fail")
                 THEN "push" ELSE "checkout_back"
    /\ UNCHANGED << mode_in, use_lite, errmsg, args, task, result, idx, created_ids,
                    git0, entryBranch, current, cm, merged, raised, report, exitCode >>

\* commit_and_merge: git push origin main, check=True, failure is a warning
GitPush ==
    /\ pc = "push"
    /\ \E out \in OkFail :
        /\ calls' = Append(calls, Call("git", "push", 0, out))
        /\ git' = IF out = "ok" THEN [git EXCEPT !.pushed = TRUE] ELSE git
    /\ pc' = "checkout_back"
    /\ UNCHANGED << mode_in, use_lite, errmsg, args, task, result, idx, created_ids, git0, entryBranch,
                    current, cm, merged, raised, report, exitCode >>

\* commit_and_merge: git checkout current, unchecked; return True
GitCheckoutBack ==
    /\ pc = "checkout_back"
    /\ \E out \in OkFail :
        /\ out = "ok" => current \in Branches
        /\ calls' = Append(calls, Call("git", "checkout_current", 0, out))
        /\ git' = IF out = "ok" THEN [git EXCEPT !.branch = current] ELSE git
    /\ merged' = TRUE
    /\ cm' = "returned"
    /\ pc' = "step4"
    /\ UNCHANGED << mode_in, use_lite, errmsg, args, task, result, idx, created_ids, git0, entryBranch,
                    current, raised, report, exitCode >>

\* handle_task step 4: reply via gm when a message id is known, unless dry-run
Step4 ==
    /\ pc = "step4"
    /\ pc' = IF ShouldNotify(args.message_id, args.dry_run) THEN "gm_reply" ELSE "output"
    /\ UNCHANGED << mode_in, use_lite, errmsg, args, task, result, calls, idx, created_ids, git, git0,
                    entryBranch, current, cm, merged, raised, report, exitCode >>

\* Variant: send_gm_reply without its except FileNotFoundError
GmReply_NoCatch ==
    /\ pc = "gm_reply"
    /\ \E out \in GmOutcomes :
        /\ calls' = Append(calls, Call("gm", ReplyStatus(result), 0, out))
        /\ IF out = "notfound"
           THEN raised' = "FileNotFoundError" /\ pc' = "except"
           ELSE raised' = raised /\ pc' = "output"
    /\ UNCHANGED << mode_in, use_lite, errmsg, args, task, result, idx, created_ids, git, git0,
                    entryBranch, current, cm, merged, report, exitCode >>

\* send_gm_reply: gm reply, unchecked; a missing gm is skipped
GmReply ==
    /\ pc = "gm_reply"
    /\ \E out \in GmOutcomes :
        calls' = Append(calls, Call("gm", ReplyStatus(result), 0, out))
    /\ pc' = "output"
    /\ UNCHANGED << mode_in, use_lite, errmsg, args, task, result, idx, created_ids, git, git0,
                    entryBranch, current, cm, merged, raised, report, exitCode >>

\* Variant: a run whose merge did not succeed is reported as a failure
Output_ExitFromMerge ==
    /\ pc = "output"
    /\ report' = "result"
    /\ exitCode' = (IF cm = "returned" /\ ~merged THEN 1 ELSE ExitStatus(result))
    /\ pc' = "done"
    /\ UNCHANGED << mode_in, use_lite, errmsg, args, task, result, calls, idx, created_ids, git, git0,
                    entryBranch, current, cm, merged, raised >>

\* main: print the result and return 0 if result.success else 1
Output ==
    /\ pc = "output"
    /\ report' = "result"
    /\ exitCode' = ExitStatus(result)
    /\ pc' = "done"
    /\ UNCHANGED << mode_in, use_lite, errmsg, args, task, result, calls, idx, created_ids, git, git0,
                    entryBranch, current, cm, merged, raised >>

\* main: except RuntimeError prints "Error: ..." and returns 1; any other
\* exception leaves main, and the interpreter prints a traceback and exits 1
MainExcept ==
    /\ pc = "except"
    /\ report' = IF CaughtByMain(raised) THEN "error" ELSE "traceback"
    /\ exitCode' = 1
    /\ pc' = "done"
    /\ UNCHANGED << mode_in, use_lite, errmsg, args, task, result, calls, idx, created_ids, git, git0,
                    entryBranch, current, cm, merged, raised >>

Next ==
    \/ ParseArgs
    \/ RunVc
    \/ Step2
    \/ BdCreate
    \/ Step3
    \/ CmEnter
    \/ GitAdd
    \/ GitCommit
    \/ GitRevParse
    \/ GitCheckoutMain
    \/ GitMerge
    \/ GitCheckoutConflict
    \/ GitPush
    \/ GitCheckoutBack
    \/ Step4
    \/ GmReply
    \/ Output
    \/ MainExcept

Spec == Init /\ [][Next]_vars

----------------------------------------------------------------------------
\* The mode selector

\* Bound of the mode selector's inputs
MaxBlocks == 3      \* most pieces a task text is put together from

\* should_use_lite_mode: the length below which a task counts as short
ShortTextThreshold == 50

\* should_use_lite_mode: keywords that indicate simple tasks
lite_keywords ==
    << <<"t", "y", "p", "o">>,
       <<"f", "i", "x", " ", "c", "o", "m", "m", "e", "n", "t">>,
       <<"u", "p", "d", "a", "t", "e", " ", "r", "e", "a", "d", "m", "e">>,
       <<"r", "e", "n", "a", "m", "e">>,
       <<"f", "i", "x", " ", "s", "p", "e", "l", "l", "i", "n", "g">>,
       <<"a", "d", "d", " ", "c", "o", "m", "m", "e", "n", "t">>,
       <<"r", "e", "m", "o", "v", "e", " ", "c", "o", "m", "m", "e", "n", "t">>,
       <<"w", "h", "i", "t", "e", "s", "p", "a", "c", "e">>,
       <<"f", "o", "r", "m", "a", "t", "t", "i", "n", "g">>,
       <<"c", "a", "p", "i", "t", "a", "l", "i", "z", "e">>,
       <<"p", "u", "n", "c", "t", "u", "a", "t", "i", "o", "n">> >>

\* should_use_lite_mode: complexity indicators
complexity_indicators ==
    << <<"i", "m", "p", "l", "e", "m", "e", "n", "t">>,
       <<"r", "e", "f", "a", "c", "t", "o", "r">>,
       <<"r", "e", "d", "e", "s", "i", "g", "n">>,
       <<"i", "n", "t", "e", "g", "r", "a", "t", "e">>,
       <<"m", "i", "g", "r", "a", "t", "e">>,
       <<"a", "d", "d", " ", "f", "e", "a", "t", "u", "r", "e">>,
       <<"s", "e", "c", "u", "r", "i", "t", "y">>,
       <<"a", "u", "t", "h", "e", "n", "t", "i", "c", "a", "t", "i", "o", "n">> >>

\* str.lower on the letters A-Z; every other character is left as it is
LowerOf ==
    ("A" :> "a") @@ ("B" :> "b") @@ ("C" :> "c") @@ ("D" :> "d") @@ ("E" :> "e") @@ ("F" :> "f")
    @@ ("G" :> "g") @@ ("H" :> "h") @@ ("I" :> "i") @@ ("J" :> "j") @@ ("K" :> "k") @@ ("L" :> "l")
    @@ ("M" :> "m") @@ ("N" :> "n") @@ ("O" :> "o") @@ ("P" :> "p") @@ ("Q" :> "q") @@ ("R" :> "r")
    @@ ("S" :> "s") @@ ("T" :> "t") @@ ("U" :> "u") @@ ("V" :> "v") @@ ("W" :> "w") @@ ("X" :> "x")
    @@ ("Y" :> "y") @@ ("Z" :> "z")

lower(t) == [i \in 1..Len(t) |-> IF t[i] \in DOMAIN LowerOf THEN LowerOf[t[i]] ELSE t[i]]

\* `k in t` on strings: k is a substring of t
Contains(k, t) ==
    \E i \in 0..(Len(t) - Len(k)) : \A j \in 1..Len(k) : t[i + j] = k[j]

ContainsAny(keywords, t) == \E n \in 1..Len(keywords) : Contains(keywords[n], t)

\* Variant: a short task is lite whatever it says
should_use_lite_mode_NoComplexityCheck(t) ==
    LET task_lower == lower(t) IN
    IF ContainsAny(lite_keywords, task_lower) THEN TRUE
    ELSE Len(t) < ShortTextThreshold

\* Variant: the complexity indicators are looked at before the lite keywords
should_use_lite_mode_ComplexityFirst(t) ==
    LET task_lower == lower(t) IN
    IF Len(t) < ShortTextThreshold /\ ContainsAny(complexity_indicators, task_lower)
    THEN FALSE
    ELSE IF ContainsAny(lite_keywords, task_lower) THEN TRUE
    ELSE Len(t) < ShortTextThreshold

\* should_use_lite_mode
should_use_lite_mode(t) ==
    LET task_lower == lower(t) IN
    IF ContainsAny(lite_keywords, task_lower) THEN TRUE
    ELSE IF Len(t) < ShortTextThreshold
    THEN IF ContainsAny(complexity_indicators, task_lower) THEN FALSE ELSE TRUE
    ELSE FALSE

\* The pieces task texts are put together from; Padding is 41 characters long,
\* so that texts of 49 and of 50 characters occur
Padding == [i \in 1..41 |-> "x"]
Blocks ==
    { <<"t", "y", "p", "o">>,
      <<"R", "e", "N", "a", "m", "e">>,
      <<"I", "m", "p", "l", "e", "m", "e", "n", "t">>,
      <<"a", "d", "d", " ">>,
      <<"f", "e", "a", "t", "u", "r", "e">>,
      <<"f", "i", "x", " ", "b", "u", "g", "s">>,
      <<"!">>,
      <<"M", "I", "G", "R", "A", "T", "E">>,
      Padding }

RECURSIVE TextsUpTo(_)
TextsUpTo(n) ==
    IF n = 0 THEN {<<>>}
    ELSE LET S == TextsUpTo(n - 1) IN S \cup {t \o b : t \in S, b \in Blocks}

\* The arguments run_vc selects its mode from
ModeInputs == [task : TextsUpTo(MaxBlocks), lite_mode : BOOLEAN, force_lite : BOOLEAN]

InitMode ==
    /\ mode_in \in ModeInputs
    /\ use_lite = "unset"
    /\ pc = "select_mode"
    /\ args = [task |-> None, issue |-> None, stdin |-> FALSE,
               message_id |-> None, dry_run |-> FALSE]
    /\ task = ""
    /\ result = NoResult
    /\ calls = <<>>
    /\ idx = 0
    /\ created_ids = <<>>
    /\ git = [branch |-> "polecat", staged |-> FALSE, commits |-> 0,
              merging |-> FALSE, mainMerged |-> FALSE, pushed |-> FALSE]
    /\ git0 = git
    /\ entryBranch = ""
    /\ current = ""
    /\ cm = "not_called"
    /\ merged = FALSE
    /\ raised = "none"
    /\ report = "none"
    /\ exitCode = NoExit
    /\ errmsg = ""

\* run_vc: use_lite = force_lite or lite_mode, else the heuristic on a non-empty task
SelectMode ==
    /\ pc = "select_mode"
    /\ use_lite' =
          IF mode_in.force_lite \/ mode_in.lite_mode THEN "lite"
          ELSE IF mode_in.task # <<>> /\ should_use_lite_mode(mode_in.task) THEN "lite"
          ELSE "full"
    /\ pc' = "mode_done"
    /\ UNCHANGED << mode_in, errmsg, args, task, result, calls, idx, created_ids,
                    git, git0, entryBranch, current, cm, merged, raised, report,
                    exitCode >>

NextMode == SelectMode

SpecMode == InitMode /\ [][NextMode]_vars

----------------------------------------------------------------------------
\* Properties

HasResult == result # NoResult
BdSeq == SelectSeq(calls, LAMBDA c : c.tool = "bd")
LastCall == calls[Len(calls)]

\* How many targeting forms the command line supplies
NumForms(a) ==
    (IF a.task # None THEN 1 ELSE 0) + (IF a.issue # None THEN 1 ELSE 0)
    + (IF a.stdin THEN 1 ELSE 0)

\* Positions of handle_task after step 2 (issue creation) is over
PastStep2 == {"step3", "cm_enter", "git_add", "git_commit", "rev_parse",
              "checkout_main", "merge", "conflict_checkout", "push",
              "checkout_back", "step4", "gm_reply", "output", "except", "done"}

\* Positions of handle_task after step 3 (commit and merge) is over
PastStep3 == {"step4", "gm_reply", "output", "except", "done"}

\* C1: when staging, the commit, the reading of the current branch and the
\* switch to main succeed and the merge fails, commit_and_merge returns
\* merged=false without raising, and the branch checked out at its return is
\* the branch that was checked out when it was entered.
C1_ConflictRestoresBranch ==
    (cm = "returned" /\ Issued("git", "rev-parse", "ok") /\ Issued("git", "merge", "fail"))
        => /\ merged = FALSE
           /\ raised = "none"
           /\ git.branch = entryBranch

\* C2: under dry-run the agent is invoked exactly once, no tracker, git or gm
\* call is ever issued, and the exit status is the one the Result's success
\* gives without dry-run: 0 when success, 1 otherwise.
C2_DryRunSuppresses ==
    args.dry_run
        => /\ CallsOf("bd") = {}
           /\ CallsOf("git") = {}
           /\ CallsOf("gm") = {}
           /\ (HasResult /\ pc = "done")
                => /\ Cardinality(CallsOf("vc")) = 1
                   /\ report = "result"
                   /\ exitCode = (IF result.success THEN 0 ELSE 1)

C2_Witness ==
    /\ pc = "done"
    /\ args.dry_run
    /\ args.message_id # None
    /\ HasResult
    /\ result.success
    /\ result.status = "completed"
    /\ result.files_modified # <<>>
    /\ result.discovered_issues # <<>>
    /\ exitCode = 0

\* C3 as stated: a version-control command is issued if and only if the
\* Result has success=true and status completed and dry-run is not set.
C3_Original ==
    (HasResult /\ pc = "done")
        => ((CallsOf("git") # {})
              <=> (result.success /\ result.status = "completed" /\ ~args.dry_run))

\* C3, amended: commit_and_merge is called if and only if the Result has
\* success=true and status completed and dry-run is not set; a version-control
\* command is issued if and only if, in addition, files_modified is non-empty;
\* no version-control command is ever issued without such a Result.
C3_CommitStepCondition ==
    LET cond == HasResult /\ result.success /\ result.status = "completed"
                /\ ~args.dry_run
    IN  /\ (CallsOf("git") # {} \/ cm # "not_called") => cond
        /\ (HasResult /\ pc \in PastStep3)
             => /\ (cm # "not_called") <=> cond
                /\ (CallsOf("git") # {}) <=> (cond /\ result.files_modified # <<>>)

C3_Witness ==
    /\ pc = "done"
    /\ HasResult
    /\ result.success
    /\ result.status = "completed"
    /\ ~args.dry_run
    /\ result.files_modified = <<>>
    /\ cm = "returned"
    /\ CallsOf("git") = {}

\* C4: when the commit fails reporting "nothing to commit", commit_and_merge
\* returns merged=true without raising and issues no further git command.
C4_NothingToCommitIsSuccess ==
    (Issued("git", "commit", "nothing_stderr") \/ Issued("git", "commit", "nothing_stdout"))
        => /\ cm = "returned"
           /\ merged = TRUE
           /\ raised = "none"
           /\ \A i \in CallsOf("git") : calls[i].op \in {"add", "commit"}

\* C5: with an empty files_modified, commit_and_merge returns merged=true,
\* issues no git command and leaves the index, the history, the checked-out
\* branch and the remote as they were.
C5_EmptyFilesNoSideEffects ==
    (cm = "returned" /\ result.files_modified = <<>>)
        => /\ merged = TRUE
           /\ CallsOf("git") = {}
           /\ git = git0

C5_Witness ==
    /\ pc = "step4"
    /\ cm = "returned"
    /\ result.files_modified = <<>>
    /\ merged = TRUE

\* C6: when handle_task returns, the exit status is 0 if Result.success and 1
\* otherwise, whatever the merge, the push, the tracker and the notifier did.
C6_ExitFromSuccessAlone ==
    (pc = "done" /\ report = "result")
        => exitCode = (IF result.success THEN 0 ELSE 1)

C6_Witness ==
    /\ pc = "done"
    /\ report = "result"
    /\ result.success
    /\ Issued("git", "merge", "fail")
    /\ Issued("bd", "create", "fail")
    /\ \E i \in CallsOf("gm") : calls[i].out = "fail"
    /\ merged = FALSE
    /\ exitCode = 0

\* C7: the issue publisher issues one creation request per discovered entry,
\* in order, whatever each request's outcome; it never raises, and the run
\* goes on to the commit step.
C7_PublisherNeverAborts ==
    /\ \A i \in 1..Len(BdSeq) : BdSeq[i].n = i
    /\ pc = "bd_create"
         => /\ raised = "none"
            /\ Len(BdSeq) = idx - 1
            /\ idx <= Len(result.discovered_issues)
    /\ (HasResult /\ ~args.dry_run /\ pc \in PastStep2)
         => Len(BdSeq) = Len(result.discovered_issues)
    /\ (HasResult /\ pc = "except") => cm = "raised"

C7_Witness ==
    /\ pc = "done"
    /\ Len(BdSeq) = MaxIssues
    /\ BdSeq[1].out = "notfound"
    /\ BdSeq[MaxIssues].out = "created"
    /\ cm = "returned"

\* C8: when staging fails, or the commit fails for a reason other than
\* "nothing to commit", the run is aborted: that command is the last external
\* call, no gm call is issued, and the process ends with exit status 1 and an
\* error report.
C8_StageCommitFailureAborts ==
    (\/ Issued("git", "add", "fail")
     \/ Issued("git", "add", "notfound")
     \/ Issued("git", "commit", "fail"))
        => /\ LastCall.tool = "git"
           /\ LastCall.op \in {"add", "commit"}
           /\ LastCall.out \in {"fail", "notfound"}
           /\ CallsOf("gm") = {}
           /\ cm = "raised"
           /\ pc \in {"except", "done"}
           /\ pc = "done" => (exitCode = 1 /\ report \in {"error", "traceback"})

C8_Witness ==
    /\ pc = "done"
    /\ Issued("git", "commit", "fail")
    /\ args.message_id # None
    /\ exitCode = 1

\* C9: unless exactly one targeting form (task text, issue reference, stdin
\* flag) is supplied, no external call is made and the process ends with a
\* usage error and a non-zero exit status.
C9_ExactlyOneTargetingForm ==
    NumForms(args) # 1
        => /\ calls = <<>>
           /\ pc = "done" => (report = "usage" /\ exitCode # 0)

\* C10: no gm call is issued without a message id; whatever the gm call does,
\* send_gm_reply does not raise, and the run reports its Result with the exit
\* status Result.success gives.
C10_NotifierBestEffort ==
    /\ args.message_id = None => CallsOf("gm") = {}
    /\ CallsOf("gm") # {}
         => /\ Cardinality(CallsOf("gm")) = 1
            /\ raised = "none"
            /\ pc \in {"output", "done"}
            /\ pc = "done"
                 => (report = "result" /\ exitCode = (IF result.success THEN 0 ELSE 1))

C10_Witness ==
    /\ pc = "done"
    /\ \E i \in CallsOf("gm") : calls[i].out = "notfound"
    /\ report = "result"
    /\ exitCode = 0

ModeSelected == pc = "mode_done"
HasTrivial(t) == ContainsAny(lite_keywords, lower(t))
HasComplexity(t) == ContainsAny(complexity_indicators, lower(t))

\* C11 as stated: a task shorter than 50 characters that contains a complexity
\* keyword is run in full mode, whatever else it contains.
C11_Original ==
    (ModeSelected /\ Len(mode_in.task) < 50 /\ HasComplexity(mode_in.task)
       /\ ~mode_in.lite_mode /\ ~mode_in.force_lite)
        => use_lite = "full"

\* C11, amended: a task shorter than 50 characters that contains a complexity
\* keyword and no trivial-edit keyword is run in full mode
\* (should_use_lite_mode returns False).
C11_ShortComplexIsFull ==
    (ModeSelected /\ Len(mode_in.task) < 50 /\ HasComplexity(mode_in.task)
       /\ ~HasTrivial(mode_in.task))
        => /\ should_use_lite_mode(mode_in.task) = FALSE
           /\ (~mode_in.lite_mode /\ ~mode_in.force_lite) => use_lite = "full"

C11_Witness ==
    /\ ModeSelected
    /\ Len(mode_in.task) = 48
    /\ Contains(<<"m", "i", "g", "r", "a", "t", "e">>, lower(mode_in.task))
    /\ ~HasTrivial(mode_in.task)
    /\ ~mode_in.lite_mode
    /\ ~mode_in.force_lite
    /\ use_lite = "full"

\* C12: a task that contains a trivial-edit keyword is run in lite mode
\* (should_use_lite_mode returns True), whatever its length and whatever
\* complexity keyword it also contains.
C12_TrivialIsLite ==
    (ModeSelected /\ HasTrivial(mode_in.task))
        => /\ should_use_lite_mode(mode_in.task) = TRUE
           /\ use_lite = "lite"

C12_Witness ==
    /\ ModeSelected
    /\ HasTrivial(mode_in.task)
    /\ HasComplexity(mode_in.task)
    /\ Len(mode_in.task) < 50
    /\ ~mode_in.lite_mode
    /\ ~mode_in.force_lite
    /\ use_lite = "lite"

\* The agent call of the run, once the agent process was started
AgentRan == calls # <<>> /\ calls[1].tool = "vc" /\ calls[1].out # "notfound"

\* C13: run_vc fails with "VC execution failed" exactly when the agent's exit
\* status is non-zero and its stdout is not a JSON object; it fails with
\* "Failed to parse VC output as JSON" when the stdout of an agent that exited
\* with 0 is not JSON; a non-zero exit status with a JSON object gives a Result.
C13_AgentFailureKinds ==
    AgentRan =>
        LET rc == calls[1].n
            out == calls[1].out
        IN  /\ (errmsg = "VC execution failed") <=> (rc # 0 /\ out # "json_object")
            /\ (rc = 0 /\ out \in {"brace_garbage", "garbage"})
                 => errmsg = "Failed to parse VC output as JSON"
            /\ (rc # 0 /\ out = "json_object") => (HasResult /\ errmsg = "")

\* C14: the agent command carries one targeting argument: the issue reference
\* when one is given, otherwise the stdin flag when stdin is set, otherwise the
\* task text.
C14_TargetPrecedence ==
    \A i \in CallsOf("vc") :
        calls[i].op = (IF args.issue # None THEN "issue"
                       ELSE IF args.stdin THEN "stdin"
                       ELSE "task")

C14_Witness ==
    /\ args.issue # None
    /\ args.stdin
    /\ args.task # None
    /\ \E i \in CallsOf("vc") : calls[i].op = "issue" /\ calls[i].out = "json_object"

RecognizedStatuses == {"completed", "partial", "blocked", "failed", "decomposed"}

\* C15 as stated: a run whose Result has status unknown does not commit or
\* merge, sends no "completed" reply and does not end with exit status 0.
C15_Original ==
    (HasResult /\ result.status = "unknown")
        => /\ cm = "not_called"
           /\ CallsOf("git") = {}
           /\ CallsOp("gm", "completed") = {}
           /\ exitCode # 0

\* C15, amended: a run whose Result has status unknown (omitted) or an
\* unrecognized status never commits or merges; its reply and its exit status
\* follow Result.success alone: "completed" and 0 when success is true,
\* "failed" and 1 otherwise.
C15_UnknownNeverCommits ==
    (HasResult /\ result.status \notin RecognizedStatuses)
        => /\ cm = "not_called"
           /\ CallsOf("git") = {}
           /\ \A i \in CallsOf("gm") :
                calls[i].op = (IF result.success THEN "completed" ELSE "failed")
           /\ pc = "done" => exitCode = (IF result.success THEN 0 ELSE 1)

C15_Witness ==
    /\ pc = "done"
    /\ HasResult
    /\ result.status = "unknown"
    /\ result.success
    /\ result.files_modified # <<>>
    /\ CallsOf("git") = {}
    /\ CallsOp("gm", "completed") # {}
    /\ exitCode = 0

\* C16: the status of every Result is one of completed, partial, blocked,
\* failed, decomposed, unknown.
C16_StatusInEnumeration ==
    HasResult => result.status \in RecognizedStatuses \cup {"unknown"}

\* C17: when the merge succeeds, commit_and_merge returns merged=true without
\* raising and with the branch it was entered on checked out again, whether
\* the push succeeded or failed.
C17_MergeSuccessRestoresBranch ==
    (cm = "returned" /\ Issued("git", "merge", "ok"))
        => /\ merged = TRUE
           /\ raised = "none"
           /\ git.branch = entryBranch

Rank(tool) ==
    IF tool = "vc" THEN 1 ELSE IF tool = "bd" THEN 2 ELSE IF tool = "git" THEN 3 ELSE 4

\* C18: the external calls of a run are ordered: the one agent call comes
\* first, every tracker call precedes every git command, and the gm reply,
\* when there is one, is the last call of the run.
C18_CallOrder ==
    /\ \A i, j \in 1..Len(calls) : i < j => Rank(calls[i].tool) <= Rank(calls[j].tool)
    /\ calls # <<>> => calls[1].tool = "vc"
    /\ Cardinality(CallsOf("vc")) <= 1
    /\ \A i \in CallsOf("gm") : i = Len(calls) /\ pc \in {"output", "done"}

C18_Witness ==
    /\ pc = "done"
    /\ CallsOf("bd") # {}
    /\ CallsOp("git", "push") # {}
    /\ CallsOf("gm") # {}

\* C19: no external call is retried: at most one agent call, at most one
\* tracker call per discovered entry, at most one of each git command and at
\* most one gm reply, whatever fails.
C19_NoRetry ==
    /\ Cardinality(CallsOf("vc")) <= 1
    /\ \A i, j \in CallsOf("bd") : calls[i].n = calls[j].n => i = j
    /\ \A i, j \in CallsOf("git") : calls[i].op = calls[j].op => i = j
    /\ Cardinality(CallsOf("gm")) <= 1

C19_Witness ==
    /\ pc = "done"
    /\ Issued("bd", "create", "fail")
    /\ Issued("git", "push", "fail")
    /\ Issued("git", "checkout_current", "fail")
    /\ \E i \in CallsOf("gm") : calls[i].out = "fail"

\* C20: within commit_and_merge the commit is issued only after staging
\* succeeded, the switch to main only after a commit was created, the merge
\* only after that switch succeeded and the push only after the merge
\* succeeded; nothing is pushed when the merge or the commit failed.
C20_StepsInSequence ==
    LET Before(i, op, out) ==
            \E j \in 1..(i - 1) :
                calls[j].tool = "git" /\ calls[j].op = op /\ calls[j].out = out
    IN  /\ \A i \in CallsOp("git", "commit") : Before(i, "add", "ok")
        /\ \A i \in CallsOp("git", "rev-parse") : Before(i, "commit", "ok")
        /\ \A i \in CallsOp("git", "checkout_main") : Before(i, "commit", "ok")
        /\ \A i \in CallsOp("git", "merge") : Before(i, "checkout_main", "ok")
        /\ \A i \in CallsOp("git", "push") : Before(i, "merge", "ok")
        /\ (Issued("git", "merge", "fail") \/ ~Issued("git", "commit", "ok"))
             => (CallsOp("git", "push") = {} /\ ~git.pushed)

C20_Witness ==
    /\ pc = "done"
    /\ Issued("git", "merge", "fail")
    /\ CallsOp("git", "push") = {}
    /\ ~git.pushed

====
